---- MODULE Spec2Model ----
(***************************************************************************)
(* TabulatureEngine._create_tab_display (src/tabulature_engine.py): the    *)
(* mapping of a sequence of MIDI pitches onto six lines of ASCII guitar    *)
(* tablature.  Text is modelled by TLA+ strings, one character per         *)
(* position, so lengths and cell contents are those of the Python strings. *)
(***************************************************************************)
EXTENDS Integers, Sequences, FiniteSets, TLC

VARIABLES
    string_midi,    \* self.string_midi: open-string pitch of each string
    string_names,   \* self.string_names: printed label of each string
    midi_notes,     \* the argument of _create_tab_display
    pc,             \* position of the call inside _create_tab_display
    tab_lines,      \* local tab_lines: six strings (index 0..5 is 1..6 here)
    n_done,         \* number of notes whose loop body has completed
    note,           \* loop variable of the outer for
    i,              \* loop variable of the inner for (0..5), 6 when exhausted
    placed,         \* local placed
    result          \* the returned text, NoResult before the return

\* an observer of the engine, not part of it: the arguments and the text of
\* one earlier call, <<>> while none is remembered
VARIABLES ref

\* the engine instance and the frame of one _create_tab_display call
eng_vars == <<string_midi, string_names, midi_notes, pc, tab_lines, n_done, note,
              i, placed, result>>

\* transcribe_audio_to_tab: what the audio analysis yields and the call's frame
VARIABLES
    onsets,         \* per onset frame: <<m>> when a pitch was tracked there and
                    \* rounds to MIDI number m, <<>> when none was
    max_notes,      \* the argument max_notes
    t_pc,           \* position of the call inside transcribe_audio_to_tab
    t_idx,          \* elements consumed by the loop that is running
    t_midi_notes,   \* local midi_notes of transcribe_audio_to_tab
    cleaned_notes,  \* local cleaned_notes
    t_result        \* the returned pair <<text, error>>, <<>> before the return

up_vars == <<onsets, max_notes, t_pc, t_idx, t_midi_notes, cleaned_notes, t_result>>

\* app.py: the SQLite tables and the Streamlit sessions
VARIABLES
    users,          \* table users: row id is the index, <<email, password_hash, tier>>
    usage,          \* table usage: per user id, the rows of the current month
    authenticated,  \* per session: st.session_state.authenticated
    user_info,      \* per session: st.session_state.user_info, <<>> for None,
                    \* else <<user_id, email, tier>>
    s_pc,           \* per session: position of its script run
    message,        \* per session: what the last run showed with st.error/st.success
    login_args      \* per session: <<email, password>> of its last
                    \* authenticate_user call, <<>> before the first

app_vars == <<users, usage, authenticated, user_info, s_pc, message, login_args>>

\* everything outside the engine
other_vars == <<ref, up_vars, app_vars>>

vars == <<eng_vars, other_vars>>

-----------------------------------------------------------------------------
(* Bounds of the model *)

\* longest note sequence handed to _create_tab_display
MaxNotes == 2

\* the pitches the notes are drawn from: below every open string (0, 39),
\* the open strings (40, 45, 50, 55, 59, 64), one-digit and two-digit frets
\* (44, 63, 65, 73, 74), the last fret of the top string (88), and pitches
\* above every fret (89, 94, 127)
Pitches == {0, 39, 40, 44, 45, 50, 55, 59, 63, 64, 65, 73, 74, 88, 89, 94, 127}

RECURSIVE SeqsUpTo(_, _)
SeqsUpTo(S, n) ==
    IF n = 0 THEN {<<>>}
    ELSE LET shorter == SeqsUpTo(S, n - 1)
         IN  shorter \cup {Append(s, x) : s \in {t \in shorter : Len(t) = n - 1}, x \in S}

NoteSequences == SeqsUpTo(Pitches, MaxNotes)

-----------------------------------------------------------------------------
(* Program constants *)

StandardTuning == <<64, 59, 55, 50, 45, 40>>
StandardNames == <<"E", "B", "G", "D", "A", "E">>
NumStrings == 6
MaxFret == 24
NoNotesMessage == "No notes detected in audio file."
NoResult == "<none>"

-----------------------------------------------------------------------------
(* Text helpers: Python's str(int), str concatenation, slicing and join *)

DigitChars == "0123456789"

Digit(d) == SubSeq(DigitChars, d + 1, d + 1)

RECURSIVE NatToStr(_)
NatToStr(n) == IF n < 10 THEN Digit(n) ELSE NatToStr(n \div 10) \o Digit(n % 10)

\* f"{fret}" for an int
IntToStr(n) == IF n < 0 THEN "-" \o NatToStr(-n) ELSE NatToStr(n)

\* s[:-3]; Python yields the empty string when len(s) <= 3
DropLast3Mutant(s) == IF Len(s) <= 4 THEN "" ELSE SubSeq(s, 1, Len(s) - 4)
DropLast3(s) == IF Len(s) <= 3 THEN "" ELSE SubSeq(s, 1, Len(s) - 3)

RECURSIVE JoinFrom(_, _)
JoinFrom(lines, j) ==
    IF j > Len(lines) THEN ""
    ELSE IF j = Len(lines) THEN lines[j]
    ELSE lines[j] \o "\n" \o JoinFrom(lines, j + 1)

\* "\n".join(lines)
JoinLinesMutant(lines) == JoinFrom(lines, 2)
JoinLines(lines) == JoinFrom(lines, 1)

-----------------------------------------------------------------------------
(* The pieces of _create_tab_display *)

\* `not midi_notes`
IsEmptyMutant(notes) == Len(notes) <= 1
IsEmpty(notes) == notes = <<>>

\* [f"{name}|" for name in self.string_names]
InitialLines(names) == [j \in 1..Len(names) |-> names[j] \o "|"]

\* fret = note - base_midi
Fret(n, base_midi) == n - base_midi

\* 0 <= fret <= 24
PlaceableMutant(fret) == 0 < fret /\ fret <= MaxFret
Placeable(fret) == 0 <= fret /\ fret <= MaxFret

\* f"-{fret}-" if fret < 10 else f"{fret}-"
FretCellMutant(fret) == "-" \o IntToStr(fret) \o "-"
FretCell(fret) ==
    IF fret < 10 THEN "-" \o IntToStr(fret) \o "-" ELSE IntToStr(fret) \o "-"

\* "---"
RestCellMutant == "--"
RestCell == "---"

\* `0 <= fret <= 24 and not placed`
TakesNoteMutant(fret, was_placed) == Placeable(fret)
TakesNote(fret, was_placed) == Placeable(fret) /\ ~was_placed

\* abs(note - self.string_midi[i]), i in 0..5
Distance(n, tuning, s) ==
    LET d == n - tuning[s + 1] IN IF d < 0 THEN -d ELSE d

\* min(range(6), key=...): the first index of minimal distance
ClosestStringMutant(n, tuning) ==
    CHOOSE s \in 0..(NumStrings - 1) :
        /\ \A t \in 0..(NumStrings - 1) : Distance(n, tuning, s) >= Distance(n, tuning, t)
        /\ \A t \in 0..(s - 1) : Distance(n, tuning, t) < Distance(n, tuning, s)
ClosestString(n, tuning) ==
    CHOOSE s \in 0..(NumStrings - 1) :
        /\ \A t \in 0..(NumStrings - 1) : Distance(n, tuning, s) <= Distance(n, tuning, t)
        /\ \A t \in 0..(s - 1) : Distance(n, tuning, t) > Distance(n, tuning, s)

\* `if fret > 24` guarding the out-of-range notation
NeedsNotationMutant(fret) == fret > MaxFret \/ fret < 0
NeedsNotation(fret) == fret > MaxFret

\* f"({fret})"
OverflowCell(fret) == "(" \o IntToStr(fret) \o ")"

\* tab_lines[closest_string][:-3] + f"({fret})"
ReplaceLastSegment(line, fret) == DropLast3(line) \o OverflowCell(fret)

-----------------------------------------------------------------------------
(* State machine *)

\* the e-mail addresses and passwords typed into the forms, "" for an empty field
Emails == {"a@x", "b@x"}
Passwords == {"p", "q"}
EmailInputs == Emails \cup {""}
PasswordInputs == Passwords \cup {""}

\* the row ids the users table can hand out: email is UNIQUE
UserIds == 1..Cardinality(Emails)

\* the application is not running: empty tables, no session
NoSessions ==
    /\ users = <<>>
    /\ usage = [u \in UserIds |-> 0]
    /\ authenticated = <<>>
    /\ user_info = <<>>
    /\ s_pc = <<>>
    /\ message = <<>>
    /\ login_args = <<>>

\* no transcribe_audio_to_tab call is in progress
NoTranscription ==
    /\ onsets = <<>>
    /\ max_notes = 0
    /\ t_pc = "none"
    /\ t_idx = 0
    /\ t_midi_notes = <<>>
    /\ cleaned_notes = <<>>
    /\ t_result = <<>>

Init ==
    /\ string_midi = StandardTuning
    /\ string_names = StandardNames
    /\ midi_notes \in NoteSequences
    /\ pc = "call"
    /\ tab_lines = <<>>
    /\ n_done = 0
    /\ note = 0
    /\ i = 0
    /\ placed = FALSE
    /\ result = NoResult
    /\ ref = <<>>
    /\ NoTranscription
    /\ NoSessions

\* lines 85-86: the empty sequence returns the sentinel
ReturnNoNotes ==
    /\ pc = "call"
    /\ IsEmpty(midi_notes)
    /\ result' = NoNotesMessage
    /\ pc' = "returned"
    /\ UNCHANGED <<string_midi, string_names, midi_notes, tab_lines, n_done,
                   note, i, placed>>
    /\ UNCHANGED other_vars

\* line 88: the six labelled lines
StartLines ==
    /\ pc = "call"
    /\ ~IsEmpty(midi_notes)
    /\ tab_lines' = InitialLines(string_names)
    /\ pc' = "for_note"
    /\ UNCHANGED <<string_midi, string_names, midi_notes, n_done, note, i,
                   placed, result>>
    /\ UNCHANGED other_vars

\* lines 90-91: the outer loop takes the next note
NextNoteMutant ==
    /\ pc = "for_note"
    /\ n_done < Len(midi_notes)
    /\ LET nxt == midi_notes[n_done + 1]
           near == /\ n_done >= 1
                   /\ nxt - midi_notes[n_done] <= 1
                   /\ midi_notes[n_done] - nxt <= 1
       IN  IF near
           THEN /\ n_done' = n_done + 1
                /\ UNCHANGED <<note, placed, i, pc>>
           ELSE /\ note' = nxt
                /\ placed' = FALSE
                /\ i' = 0
                /\ pc' = "for_string"
                /\ n_done' = n_done
    /\ UNCHANGED <<string_midi, string_names, midi_notes, tab_lines, result>>
    /\ UNCHANGED other_vars
NextNote ==
    /\ pc = "for_note"
    /\ n_done < Len(midi_notes)
    /\ note' = midi_notes[n_done + 1]
    /\ placed' = FALSE
    /\ i' = 0
    /\ pc' = "for_string"
    /\ UNCHANGED <<string_midi, string_names, midi_notes, tab_lines, n_done,
                   result>>
    /\ UNCHANGED other_vars

\* lines 92-101: one iteration of the inner loop
StringStep ==
    /\ pc = "for_string"
    /\ i < NumStrings
    /\ LET fret == Fret(note, string_midi[i + 1])
       IN  IF TakesNote(fret, placed)
           THEN /\ tab_lines' = [tab_lines EXCEPT ![i + 1] = @ \o FretCell(fret)]
                /\ placed' = TRUE
           ELSE /\ tab_lines' = [tab_lines EXCEPT ![i + 1] = @ \o RestCell]
                /\ placed' = placed
    /\ i' = i + 1
    /\ pc' = IF i + 1 = NumStrings THEN "if_not_placed" ELSE "for_string"
    /\ UNCHANGED <<string_midi, string_names, midi_notes, n_done, note, result>>
    /\ UNCHANGED other_vars

\* lines 103-109: the note that found no string
OutOfRange ==
    /\ pc = "if_not_placed"
    /\ IF ~placed
       THEN LET closest_string == ClosestString(note, string_midi)
                fret == Fret(note, string_midi[closest_string + 1])
            IN  IF NeedsNotation(fret)
                THEN tab_lines' = [tab_lines EXCEPT ![closest_string + 1] =
                                       ReplaceLastSegment(@, fret)]
                ELSE tab_lines' = tab_lines
       ELSE tab_lines' = tab_lines
    /\ n_done' = n_done + 1
    /\ pc' = "for_note"
    /\ UNCHANGED <<string_midi, string_names, midi_notes, note, i, placed, result>>
    /\ UNCHANGED other_vars

\* line 111: the loop is exhausted, the lines are joined
ReturnTabMutant ==
    /\ pc = "for_note"
    /\ n_done = Len(midi_notes)
    /\ result' = JoinLines(tab_lines)
    /\ pc' = "returned"
    /\ string_names' = tab_lines
    /\ UNCHANGED <<string_midi, midi_notes, tab_lines, n_done, note, i, placed>>
    /\ UNCHANGED other_vars
ReturnTab ==
    /\ pc = "for_note"
    /\ n_done = Len(midi_notes)
    /\ result' = JoinLines(tab_lines)
    /\ pc' = "returned"
    /\ UNCHANGED <<string_midi, string_names, midi_notes, tab_lines, n_done,
                   note, i, placed>>
    /\ UNCHANGED other_vars

Next ==
    \/ ReturnNoNotes
    \/ StartLines
    \/ NextNote
    \/ StringStep
    \/ OutOfRange
    \/ ReturnTab

Spec == Init /\ [][Next]_vars


\* the call runs to completion once started: a synchronous function body
FairSpec == Init /\ [][Next]_vars /\ WF_vars(Next)

-----------------------------------------------------------------------------
(* Several calls on one engine instance *)

\* the pitches of the calls: below every string, playable, above every fret
CallPitches == {39, 64, 65, 94}

CallSequences == SeqsUpTo(CallPitches, MaxNotes)

CallInit ==
    /\ string_midi = StandardTuning
    /\ string_names = StandardNames
    /\ midi_notes \in CallSequences
    /\ pc = "call"
    /\ tab_lines = <<>>
    /\ n_done = 0
    /\ note = 0
    /\ i = 0
    /\ placed = FALSE
    /\ result = NoResult
    /\ ref = <<>>
    /\ NoTranscription
    /\ NoSessions

\* the caller keeps the arguments and the text of the call that has returned;
\* the third component tells whether a call with other notes was made since
Remember ==
    /\ pc = "returned"
    /\ ref' = <<midi_notes, result, FALSE>>
    /\ UNCHANGED <<eng_vars, up_vars, app_vars>>

\* line 83: the next call on the same instance, with a fresh frame
CallAgain ==
    /\ pc = "returned"
    /\ \E notes \in CallSequences :
        /\ midi_notes' = notes
        /\ ref' = IF ref # <<>> /\ notes # ref[1] THEN <<ref[1], ref[2], TRUE>> ELSE ref
    /\ pc' = "call"
    /\ tab_lines' = <<>>
    /\ n_done' = 0
    /\ note' = 0
    /\ i' = 0
    /\ placed' = FALSE
    /\ result' = NoResult
    /\ UNCHANGED <<string_midi, string_names, up_vars, app_vars>>

CallNext ==
    \/ ReturnNoNotes
    \/ StartLines
    \/ NextNote
    \/ StringStep
    \/ OutOfRange
    \/ ReturnTab
    \/ Remember
    \/ CallAgain

CallSpec == CallInit /\ [][CallNext]_vars

-----------------------------------------------------------------------------
(* transcribe_audio_to_tab: note detection, deduplication, mapping *)

\* most onsets the analysis reports
MaxOnsets == 3

\* what an onset yields: no pitch, or a pitch rounding to a MIDI number
\* outside (39, 85, 94) or inside (40, 41, 42, 84) the accepted range
OnsetValues == {<<>>, <<39>>, <<40>>, <<41>>, <<42>>, <<84>>, <<85>>, <<94>>}

OnsetSequences == SeqsUpTo(OnsetValues, MaxOnsets)

\* the values of max_notes (25 by default): zero, fewer than, as many as and
\* more than the onsets, and negative ones, which the slice of line 55 takes
\* as a stop counted from the end
MaxNotesValues == {-(MaxOnsets + 1), -1, 0, 1, MaxOnsets, MaxOnsets + 1}

LowestNote == 40
HighestNote == 84
NoError == "None"
NoText == "None"
\* f"Error processing audio: {str(e)}"
ProcessingError(e) == "Error processing audio: " \o e

\* str(e) of what decoding, exporting or analysing the audio raises
LoadErrors == {"cannot load", "could not decode"}

\* the names of the uploaded file: the types the uploader takes, a name
\* with no dot, and an extension with a quote or a backslash in it
Filenames == {"x.wav", "song.mp3", "a.m4a", "b.flac", "noext", "it's.o'k", "c.w\\v"}

\* filename.split('.')[-1]
RECURSIVE LastPartFrom(_, _, _)
LastPartFrom(filename, start, p) ==
    IF p > Len(filename) THEN SubSeq(filename, start, Len(filename))
    ELSE IF SubSeq(filename, p, p) = "."
         THEN LastPartFrom(filename, p + 1, p + 1)
         ELSE LastPartFrom(filename, start, p + 1)

LastPart(filename) == LastPartFrom(filename, 1, 1)

\* tmp_file.name of NamedTemporaryFile(suffix=f".{filename.split('.')[-1]}")
TmpPath(filename) == "/tmp/tmpa." \o LastPart(filename)

\* wav_buffer.name of NamedTemporaryFile(suffix='.wav')
WavBufferName == "/tmp/tmpb.wav"

TempPaths == {TmpPath(filename) : filename \in Filenames} \cup {WavBufferName}

HasChar(str, ch) == \E p \in 1..Len(str) : SubSeq(str, p, p) = ch

RECURSIVE EscapeFrom(_, _, _)
EscapeFrom(str, p, quote) ==
    IF p > Len(str) THEN ""
    ELSE LET ch == SubSeq(str, p, p)
         IN  (IF ch = "\\" THEN "\\\\"
              ELSE IF ch = quote THEN "\\" \o quote
              ELSE ch) \o EscapeFrom(str, p + 1, quote)

\* repr(str) of a printable string: double quotes when it holds an
\* apostrophe and no double quote, the backslash and the quote escaped
Repr(str) ==
    LET quote == IF HasChar(str, "'") /\ ~HasChar(str, "\"") THEN "\"" ELSE "'"
    IN  quote \o EscapeFrom(str, 1, quote) \o quote

\* str(e) of the FileNotFoundError of os.unlink(path)
UnlinkError(tmp_path) == "[Errno 2] No such file or directory: " \o Repr(tmp_path)
UnlinkErrors == {UnlinkError(tmp_path) : tmp_path \in TempPaths}

\* len(onset_frames[:max_notes])
SliceLen(len, stop) ==
    IF stop >= 0 THEN (IF stop < len THEN stop ELSE len)
    ELSE (IF len + stop > 0 THEN len + stop ELSE 0)

\* `40 <= midi_note <= 84`
InGuitarRangeMutant(m) == LowestNote <= m
InGuitarRange(m) == LowestNote <= m /\ m <= HighestNote

\* `not cleaned_notes or abs(note - cleaned_notes[-1]) > 1`
KeepsNoteMutant(n, cleaned) ==
    \/ cleaned = <<>>
    \/ n - cleaned[Len(cleaned)] >= 1
    \/ cleaned[Len(cleaned)] - n >= 1
KeepsNote(n, cleaned) ==
    \/ cleaned = <<>>
    \/ n - cleaned[Len(cleaned)] > 1
    \/ cleaned[Len(cleaned)] - n > 1

TranscribeInit ==
    /\ string_midi = StandardTuning
    /\ string_names = StandardNames
    /\ midi_notes = <<>>
    /\ pc = "idle"
    /\ tab_lines = <<>>
    /\ n_done = 0
    /\ note = 0
    /\ i = 0
    /\ placed = FALSE
    /\ result = NoResult
    /\ ref = <<>>
    /\ onsets \in OnsetSequences
    /\ max_notes \in MaxNotesValues
    /\ t_pc = "load"
    /\ t_idx = 0
    /\ t_midi_notes = <<>>
    /\ cleaned_notes = <<>>
    /\ t_result = <<>>
    /\ NoSessions

\* lines 80-81: whatever is raised inside the call becomes the error result
RaiseError(e) ==
    /\ t_result' = <<NoText, ProcessingError(e)>>
    /\ t_pc' = "done"

\* lines 28-54: the audio is decoded and analysed
LoadAudio ==
    /\ t_pc = "load"
    /\ t_pc' = "detect"
    /\ t_idx' = 0
    /\ t_midi_notes' = <<>>
    /\ UNCHANGED <<onsets, max_notes, cleaned_notes, t_result, eng_vars, ref,
                   app_vars>>

\* lines 28-52 raising: unreadable audio, failing export or analysis; the
\* finally clause runs on the way out, and what line 78 raises replaces it
LoadFails ==
    /\ t_pc = "load"
    /\ \E e \in LoadErrors \cup UnlinkErrors : RaiseError(e)
    /\ UNCHANGED <<onsets, max_notes, t_idx, t_midi_notes, cleaned_notes, eng_vars, ref,
                   app_vars>>

\* lines 55-63: one onset of onset_frames[:max_notes]
DetectStep ==
    /\ t_pc = "detect"
    /\ t_idx < SliceLen(Len(onsets), max_notes)
    /\ LET at == onsets[t_idx + 1]
       IN  t_midi_notes' = IF at # <<>> /\ InGuitarRange(at[1])
                           THEN Append(t_midi_notes, at[1])
                           ELSE t_midi_notes
    /\ t_idx' = t_idx + 1
    /\ UNCHANGED <<onsets, max_notes, t_pc, cleaned_notes, t_result, eng_vars, ref,
                   app_vars>>

\* line 66: the onsets are exhausted, the cleaning loop starts
StartCleaning ==
    /\ t_pc = "detect"
    /\ t_idx = SliceLen(Len(onsets), max_notes)
    /\ cleaned_notes' = <<>>
    /\ t_idx' = 0
    /\ t_pc' = "clean"
    /\ UNCHANGED <<onsets, max_notes, t_midi_notes, t_result, eng_vars, ref,
                   app_vars>>

\* lines 67-69: one detected note
CleanStep ==
    /\ t_pc = "clean"
    /\ t_idx < Len(t_midi_notes)
    /\ LET n == t_midi_notes[t_idx + 1]
       IN  cleaned_notes' = IF KeepsNote(n, cleaned_notes)
                            THEN Append(cleaned_notes, n)
                            ELSE cleaned_notes
    /\ t_idx' = t_idx + 1
    /\ UNCHANGED <<onsets, max_notes, t_pc, t_midi_notes, t_result, eng_vars, ref,
                   app_vars>>

\* lines 72-74: the temporary WAV is removed and the mapper is called
CallDisplay ==
    /\ t_pc = "clean"
    /\ t_idx = Len(t_midi_notes)
    /\ pc = "idle"
    /\ midi_notes' = cleaned_notes
    /\ pc' = "call"
    /\ t_pc' = "display"
    /\ UNCHANGED <<string_midi, string_names, tab_lines, n_done, note, i, placed,
                   result, ref, app_vars>>
    /\ UNCHANGED <<onsets, max_notes, t_idx, t_midi_notes, cleaned_notes, t_result>>

\* line 72 raising: the temporary WAV cannot be removed; line 78 of the
\* finally clause may raise in its place
CleanupFails ==
    /\ t_pc = "clean"
    /\ t_idx = Len(t_midi_notes)
    /\ \E e \in UnlinkErrors : RaiseError(e)
    /\ UNCHANGED <<onsets, max_notes, t_idx, t_midi_notes, cleaned_notes, eng_vars, ref,
                   app_vars>>

\* lines 74-78: the mapper's text is returned with no error
TranscribeReturn ==
    /\ t_pc = "display"
    /\ pc = "returned"
    /\ t_result' = <<result, NoError>>
    /\ t_pc' = "done"
    /\ UNCHANGED <<onsets, max_notes, t_idx, t_midi_notes, cleaned_notes, eng_vars, ref,
                   app_vars>>

\* line 78 raising in the finally clause: the text is lost to the error
FinallyFails ==
    /\ t_pc = "display"
    /\ pc = "returned"
    /\ \E e \in UnlinkErrors : RaiseError(e)
    /\ UNCHANGED <<onsets, max_notes, t_idx, t_midi_notes, cleaned_notes, eng_vars, ref,
                   app_vars>>

TranscribeNext ==
    \/ LoadAudio
    \/ LoadFails
    \/ DetectStep
    \/ StartCleaning
    \/ CleanStep
    \/ CallDisplay
    \/ CleanupFails
    \/ ReturnNoNotes
    \/ StartLines
    \/ NextNote
    \/ StringStep
    \/ OutOfRange
    \/ ReturnTab
    \/ TranscribeReturn
    \/ FinallyFails

TranscribeSpec == TranscribeInit /\ [][TranscribeNext]_vars

-----------------------------------------------------------------------------
(* app.py: accounts, sessions and the monthly quota *)

\* concurrent sessions of one user
NumSessions == 2

FreeLimit == 100
Tier1Limit == 500

\* hashlib.sha256(password.encode()).hexdigest(): distinct passwords, distinct digests
HashPassword(password) == <<"sha256", password>>

\* the engine and the transcription are not in use
EngineIdle ==
    /\ string_midi = StandardTuning
    /\ string_names = StandardNames
    /\ midi_notes = <<>>
    /\ pc = "idle"
    /\ tab_lines = <<>>
    /\ n_done = 0
    /\ note = 0
    /\ i = 0
    /\ placed = FALSE
    /\ result = NoResult
    /\ ref = <<>>
    /\ NoTranscription

Sessions == DOMAIN authenticated

\* SELECT id, tier FROM users WHERE email = ? AND password_hash = ?
MatchingUsersMutant(email, password_hash) ==
    {u \in DOMAIN users : users[u][1] = email}
MatchingUsers(email, password_hash) ==
    {u \in DOMAIN users : users[u][1] = email /\ users[u][2] = password_hash}

\* the UNIQUE constraint on users.email
EmailTaken(email) == \E u \in DOMAIN users : users[u][1] = email

\* get_usage_count: SELECT COUNT(*) FROM usage WHERE user_id = ? AND month_year = ?
GetUsageCount(user_id) == usage[user_id]

\* can_generate: current_usage < limits.get(tier, 0)
CanGenerate(user_id, tier) ==
    CASE tier = "free" -> GetUsageCount(user_id) < FreeLimit
      [] tier = "tier1" -> GetUsageCount(user_id) < Tier1Limit
      [] tier = "unlimited" -> TRUE
      [] OTHER -> GetUsageCount(user_id) < 0

\* show_main_app: tier != 'unlimited' and current_usage >= limit
LimitReached(user_id, tier) ==
    CASE tier = "free" -> GetUsageCount(user_id) >= FreeLimit
      [] tier = "tier1" -> GetUsageCount(user_id) >= Tier1Limit
      [] tier = "unlimited" -> FALSE
      [] OTHER -> GetUsageCount(user_id) >= 0

Shows(s, text) == message' = [message EXCEPT ![s] = text]

\* sqlite3.OperationalError of a write while another connection holds the
\* write lock: a concurrent session, or the connection create_user leaves
\* open after an IntegrityError
DatabaseLocked == "database is locked"

\* limits.get(user_info['tier'], 0) of a plan other than unlimited
PlanLimit(tier) ==
    CASE tier = "free" -> FreeLimit
      [] tier = "tier1" -> Tier1Limit
      [] OTHER -> 0

\* "%f" % (current_usage / limit): six decimals, rounded
FormatRatio(current_usage, limit) ==
    LET q == (2 * current_usage * 1000000 + limit) \div (2 * limit)
    IN  NatToStr(q \div 1000000) \o "." \o SubSeq(NatToStr(1000000 + (q % 1000000)), 2, 7)

\* st.progress(progress) takes 0.0..1.0 and raises StreamlitAPIException otherwise
ProgressOutOfRange(user_id, tier) ==
    /\ tier # "unlimited"
    /\ PlanLimit(tier) > 0
    /\ GetUsageCount(user_id) > PlanLimit(tier)

ProgressError(user_id, tier) ==
    "Progress Value has invalid value [0.0, 1.0]: "
        \o FormatRatio(GetUsageCount(user_id), PlanLimit(tier))

\* what show_main_app shows down to the usage gate
GateMessage(user_id, tier) ==
    IF ProgressOutOfRange(user_id, tier) THEN ProgressError(user_id, tier)
    ELSE IF LimitReached(user_id, tier)
    THEN "You've reached your monthly limit! Upgrade your plan to continue."
    ELSE ""

\* show_login_page, button "Login": after a successful login the run ends
\* at st.rerun() with nothing shown, the page is drawn by the next run
Login(s) ==
    /\ s_pc[s] = "idle"
    /\ ~authenticated[s]
    /\ \E email \in EmailInputs, password \in PasswordInputs :
        IF email = "" \/ password = ""
        THEN /\ Shows(s, "Please enter both email and password")
             /\ UNCHANGED <<authenticated, user_info, login_args, s_pc>>
        ELSE LET found == MatchingUsers(email, HashPassword(password))
             IN  /\ login_args' = [login_args EXCEPT ![s] = <<email, password>>]
                 /\ IF found # {}
                    THEN LET u == CHOOSE u \in found : TRUE
                         IN  \/ /\ authenticated' = [authenticated EXCEPT ![s] = TRUE]
                                /\ user_info' =
                                       [user_info EXCEPT ![s] = <<u, email, users[u][3]>>]
                                /\ Shows(s, "")
                                /\ s_pc' = [s_pc EXCEPT ![s] = "rerun"]
                             \* the UPDATE of last_login raises
                             \/ /\ Shows(s, DatabaseLocked)
                                /\ UNCHANGED <<authenticated, user_info, s_pc>>
                    ELSE /\ Shows(s, "Invalid email or password")
                         /\ UNCHANGED <<authenticated, user_info, s_pc>>
    /\ UNCHANGED <<users, usage, eng_vars, ref, up_vars>>

\* the run st.rerun() of line 218 asks for: main draws show_main_app, which
\* reads the usage count as it is by then
Rerun(s) ==
    /\ s_pc[s] = "rerun"
    /\ s_pc' = [s_pc EXCEPT ![s] = "idle"]
    /\ Shows(s, GateMessage(user_info[s][1], user_info[s][3]))
    /\ UNCHANGED <<users, usage, authenticated, user_info, login_args,
                   eng_vars, ref, up_vars>>

\* show_login_page, button "Sign Up"
SignUp(s) ==
    /\ s_pc[s] = "idle"
    /\ ~authenticated[s]
    /\ \E new_email \in EmailInputs, new_password \in PasswordInputs,
          confirm_password \in PasswordInputs :
        IF new_email = "" \/ new_password = "" \/ confirm_password = ""
        THEN Shows(s, "Please fill in all fields") /\ users' = users
        ELSE IF new_password # confirm_password
        THEN Shows(s, "Passwords don't match") /\ users' = users
        ELSE \* create_user: the INSERT waits for the write lock before it
             \* meets the UNIQUE constraint
             \/ /\ Shows(s, "Error creating account: " \o DatabaseLocked)
                /\ users' = users
             \/ IF EmailTaken(new_email)
                THEN Shows(s, "Email already exists!") /\ users' = users
                ELSE /\ users' = Append(users,
                                       <<new_email, HashPassword(new_password), "free">>)
                     /\ Shows(s, "Account created successfully!")
    /\ UNCHANGED <<usage, authenticated, user_info, s_pc, login_args,
                   eng_vars, ref, up_vars>>

\* show_main_app, button "Logout", and the run its st.rerun() asks for: the
\* login page is drawn, which reads neither table
Logout(s) ==
    /\ s_pc[s] = "idle"
    /\ authenticated[s]
    /\ authenticated' = [authenticated EXCEPT ![s] = FALSE]
    /\ user_info' = [user_info EXCEPT ![s] = <<>>]
    /\ Shows(s, "")
    /\ UNCHANGED <<users, usage, s_pc, login_args,
                   eng_vars, ref, up_vars>>

\* main and show_main_app up to the tabs, in the run of a generation button:
\* the page is drawn for an authenticated session and stops at the limit
UsageGate(s) ==
    /\ s_pc[s] = "idle"
    /\ authenticated[s]
    /\ IF GateMessage(user_info[s][1], user_info[s][3]) # ""
       THEN /\ Shows(s, GateMessage(user_info[s][1], user_info[s][3]))
            /\ s_pc' = s_pc
       ELSE /\ Shows(s, "")
            /\ s_pc' = [s_pc EXCEPT ![s] = "button"]
    /\ UNCHANGED <<users, usage, authenticated, user_info, login_args,
                   eng_vars, ref, up_vars>>

\* the button's `if user_manager.can_generate(...)`
CheckCanGenerate(s) ==
    /\ s_pc[s] = "button"
    /\ IF CanGenerate(user_info[s][1], user_info[s][3])
       THEN /\ s_pc' = [s_pc EXCEPT ![s] = "generating"]
            /\ message' = message
       ELSE /\ s_pc' = [s_pc EXCEPT ![s] = "idle"]
            /\ Shows(s, "Generation limit reached! Please upgrade your plan.")
    /\ UNCHANGED <<users, usage, authenticated, user_info, login_args,
                   eng_vars, ref, up_vars>>

\* a run of the script with no button pressed (a widget changed, the page
\* reloaded): the page is drawn again and what the last run showed is gone
PageRun(s) ==
    /\ s_pc[s] = "idle"
    /\ IF ~authenticated[s]
       THEN Shows(s, "")
       ELSE Shows(s, GateMessage(user_info[s][1], user_info[s][3]))
    /\ UNCHANGED <<users, usage, authenticated, user_info, s_pc, login_args,
                   eng_vars, ref, up_vars>>

\* button "Generate from Text" with no description: can_generate is not called
EmptyDescription(s) ==
    /\ s_pc[s] = "button"
    /\ s_pc' = [s_pc EXCEPT ![s] = "idle"]
    /\ Shows(s, "Please enter a description")
    /\ UNCHANGED <<users, usage, authenticated, user_info, login_args,
                   eng_vars, ref, up_vars>>

\* log_usage after the tablature has been shown
LogUsage(s) ==
    /\ s_pc[s] = "generating"
    /\ \/ /\ usage' = [usage EXCEPT ![user_info[s][1]] = @ + 1]
          /\ message' = message
       \* the INSERT raises
       \/ /\ usage' = usage
          /\ Shows(s, DatabaseLocked)
    /\ s_pc' = [s_pc EXCEPT ![s] = "idle"]
    /\ UNCHANGED <<users, authenticated, user_info, login_args,
                   eng_vars, ref, up_vars>>

\* concurrent sessions of one registered user, logged in, nothing generated yet
QuotaInit ==
    /\ EngineIdle
    /\ \E tier \in {"free", "tier1"} :
        /\ users = << <<"a@x", HashPassword("p"), tier>> >>
        /\ user_info = [s \in 1..NumSessions |-> <<1, "a@x", tier>>]
    /\ usage = [u \in UserIds |-> 0]
    /\ authenticated = [s \in 1..NumSessions |-> TRUE]
    /\ s_pc = [s \in 1..NumSessions |-> "idle"]
    /\ message = [s \in 1..NumSessions |-> ""]
    /\ login_args = [s \in 1..NumSessions |-> <<"a@x", "p">>]

QuotaNext ==
    \/ \E s \in Sessions : UsageGate(s)
    \/ \E s \in Sessions : CheckCanGenerate(s)
    \/ \E s \in Sessions : EmptyDescription(s)
    \/ \E s \in Sessions : PageRun(s)
    \/ \E s \in Sessions : LogUsage(s)

QuotaSpec == QuotaInit /\ [][QuotaNext]_vars

\* the generations the registered account has left this month
GenerationsLeft == 2

\* init_session_state, users.db kept from earlier runs with one free account
\* close to its limit: one session, not authenticated
SessionInit ==
    /\ EngineIdle
    /\ users = << <<"a@x", HashPassword("p"), "free">> >>
    /\ usage = [u \in UserIds |-> IF u = 1 THEN FreeLimit - GenerationsLeft ELSE 0]
    /\ authenticated = [s \in {1} |-> FALSE]
    /\ user_info = [s \in {1} |-> <<>>]
    /\ s_pc = [s \in {1} |-> "idle"]
    /\ message = [s \in {1} |-> ""]
    /\ login_args = [s \in {1} |-> <<>>]

SessionNext ==
    \/ \E s \in Sessions : Login(s)
    \/ \E s \in Sessions : Rerun(s)
    \/ \E s \in Sessions : SignUp(s)
    \/ \E s \in Sessions : Logout(s)
    \/ \E s \in Sessions : UsageGate(s)
    \/ \E s \in Sessions : CheckCanGenerate(s)
    \/ \E s \in Sessions : EmptyDescription(s)
    \/ \E s \in Sessions : PageRun(s)
    \/ \E s \in Sessions : LogUsage(s)

SessionSpec == SessionInit /\ [][SessionNext]_vars

-----------------------------------------------------------------------------
(* Reading a tablature back: cells, slots and the numbers they carry *)

CharAt(s, p) == SubSeq(s, p, p)

Contains(s, ch) == \E p \in 1..Len(s) : CharAt(s, p) = ch

CountChar(s, ch) == Cardinality({p \in 1..Len(s) : CharAt(s, p) = ch})

\* number of lines of a text
LineCount(text) == 1 + CountChar(text, "\n")

\* a line without its two-character label "X|"
CellText(line) == SubSeq(line, 3, Len(line))

\* position of the first ")" at or after p, Len(s) when there is none
RECURSIVE CloseAt(_, _)
CloseAt(s, p) ==
    IF p >= Len(s) THEN Len(s)
    ELSE IF CharAt(s, p) = ")" THEN p ELSE CloseAt(s, p + 1)

\* the cells of a line's text: "(...)" is one cell, any other cell is 3 wide
RECURSIVE CellsFrom(_, _)
CellsFrom(s, p) ==
    IF p > Len(s) THEN <<>>
    ELSE LET last == IF CharAt(s, p) = "("
                     THEN CloseAt(s, p)
                     ELSE IF p + 2 <= Len(s) THEN p + 2 ELSE Len(s)
         IN  <<SubSeq(s, p, last)>> \o CellsFrom(s, last + 1)

Cells(line) == CellsFrom(CellText(line), 1)

\* the cell of processed note m (1-based) on string s (0-based)
Slot(s, m) == Cells(tab_lines[s + 1])[m]

IsDigit(c) == \E d \in 0..9 : CharAt(DigitChars, d + 1) = c

DigitValue(c) == CHOOSE d \in 0..9 : CharAt(DigitChars, d + 1) = c

IsNumeral(s) == Len(s) > 0 /\ \A p \in 1..Len(s) : IsDigit(CharAt(s, p))

RECURSIVE NumeralValue(_)
NumeralValue(s) ==
    IF Len(s) = 0 THEN 0
    ELSE 10 * NumeralValue(SubSeq(s, 1, Len(s) - 1)) + DigitValue(CharAt(s, Len(s)))

\* the text carries the integer v in decimal, "-" first when negative
Carries(s, v) ==
    IF v < 0
    THEN /\ Len(s) >= 2
         /\ CharAt(s, 1) = "-"
         /\ IsNumeral(SubSeq(s, 2, Len(s)))
         /\ NumeralValue(SubSeq(s, 2, Len(s))) = -v
    ELSE IsNumeral(s) /\ NumeralValue(s) = v

\* a fret cell for fret f: "-f-" below 10, "ff-" from 10 on
IsFretCellFor(c, f) ==
    /\ Len(c) = 3
    /\ CharAt(c, 3) = "-"
    /\ IF f < 10
       THEN CharAt(c, 1) = "-" /\ Carries(CharAt(c, 2), f)
       ELSE Carries(SubSeq(c, 1, 2), f)

\* an overflow annotation "(f)"
IsOverflowCellFor(c, f) ==
    /\ Len(c) >= 3
    /\ CharAt(c, 1) = "("
    /\ CharAt(c, Len(c)) = ")"
    /\ Carries(SubSeq(c, 2, Len(c) - 1), f)

Strings == 0..5

\* the note n can be played on string s within the modelled frets
OnString(n, s) == 0 <= n - string_midi[s + 1] /\ n - string_midi[s + 1] <= 24

\* s is the first string, top to bottom, on which n can be played
FirstString(n, s) == OnString(n, s) /\ \A t \in 0..(s - 1) : ~OnString(n, t)

Unplaceable(n) == \A s \in Strings : ~OnString(n, s)

AbsDiff(a, b) == IF a < b THEN b - a ELSE a - b

\* s is a string whose open pitch is numerically closest to n
Nearest(n, s) ==
    \A t \in Strings : AbsDiff(n, string_midi[s + 1]) <= AbsDiff(n, string_midi[t + 1])

\* the outer loop is between two notes, or the call has returned a tablature
AtNoteBoundary == pc = "for_note" \/ (pc = "returned" /\ midi_notes # <<>>)

Processed == 1..n_done

AllSameLength == \A s, t \in Strings : Len(tab_lines[s + 1]) = Len(tab_lines[t + 1])

-----------------------------------------------------------------------------
(* Claims *)

\* C1: first matching string wins. Every processed note that is placeable on
\* some string has its fret number in its slot on the first string, top to
\* bottom, on which it is placeable, and "---" in that slot on the other five.
C1_FirstMatchingStringWins ==
    AtNoteBoundary =>
        \A m \in Processed : \A s \in Strings :
            FirstString(midi_notes[m], s) =>
                /\ IsFretCellFor(Slot(s, m), midi_notes[m] - string_midi[s + 1])
                /\ \A t \in Strings \ {s} : Slot(t, m) = "---"

\* a note playable on strings 1..5 but not on string 0 sits on string 1
C1_Witness ==
    /\ pc = "returned"
    /\ \E m \in Processed :
        /\ midi_notes[m] = 63
        /\ Slot(1, m) = "-4-"
        /\ Slot(0, m) = "---"
        /\ Slot(2, m) = "---"

\* C2 (as claimed): every processed note placeable on no string has, in its
\* slot on a string of numerically closest open pitch, an overflow annotation
\* carrying note - tuning[closest].
C2_UnplaceableNoteAnnotated ==
    AtNoteBoundary =>
        \A m \in Processed :
            Unplaceable(midi_notes[m]) =>
                \E s \in Strings :
                    /\ Nearest(midi_notes[m], s)
                    /\ IsOverflowCellFor(Slot(s, m), midi_notes[m] - string_midi[s + 1])

\* C3: a note more than 24 semitones above the highest open string is put on
\* string 0 as "(f)", f = pitch - open pitch of string 0, and the other five
\* strings hold "---" in that slot.
C3_HighNoteOverflowsOnString0 ==
    AtNoteBoundary =>
        \A m \in Processed :
            midi_notes[m] > string_midi[1] + 24 =>
                /\ Nearest(midi_notes[m], 0)
                /\ IsOverflowCellFor(Slot(0, m), midi_notes[m] - string_midi[1])
                /\ \A t \in Strings \ {0} : Slot(t, m) = "---"

\* pitch 94, 30 above the top string, reads "(30)" on string 0
C3_Witness ==
    /\ pc = "returned"
    /\ \E m \in Processed :
        /\ midi_notes[m] = 94
        /\ Slot(0, m) = "(30)"
        /\ Slot(5, m) = "---"

\* C4 (as claimed): the returned text has exactly 6 lines, and after k notes
\* every line without an overflow cell has length exactly 3 * k.
C4_LineLengthIs3k ==
    /\ (pc = "returned" /\ midi_notes # <<>>) => LineCount(result) = 6
    /\ AtNoteBoundary =>
           \A s \in Strings :
               ~Contains(tab_lines[s + 1], "(") => Len(tab_lines[s + 1]) = 3 * n_done

\* C4 (amended): the returned text has exactly 6 lines, and after k notes
\* every line without an overflow cell has length exactly 2 + 3 * k: the
\* two-character label "X|" followed by k cells of 3 characters.
C4_LineLengthIsLabelPlus3k ==
    /\ (pc = "returned" /\ midi_notes # <<>>) => LineCount(result) = 6
    /\ AtNoteBoundary =>
           \A s \in Strings :
               ~Contains(tab_lines[s + 1], "(") => Len(tab_lines[s + 1]) = 2 + 3 * n_done

\* two notes returned, one of them an overflow on string 0, string 1 plain
C4_Witness ==
    /\ pc = "returned"
    /\ n_done = 2
    /\ Contains(tab_lines[1], "(")
    /\ ~Contains(tab_lines[2], "(")
    /\ Len(tab_lines[2]) = 8
    /\ LineCount(result) = 6

\* C5 (as claimed): after each processed note all six lines have equal length.
C5_Lockstep == AtNoteBoundary => AllSameLength

\* C5 (amended): after each processed note every line holds exactly one cell
\* per processed note, and the six lines have equal length as long as no
\* processed note is more than 24 semitones above the highest open string.
C5_LockstepWithoutOverflow ==
    AtNoteBoundary =>
        /\ \A s \in Strings : Len(Cells(tab_lines[s + 1])) = n_done
        /\ (\A m \in Processed : midi_notes[m] <= string_midi[1] + 24) => AllSameLength

\* a note below every open string and a playable note, lines still aligned
C5_Witness ==
    /\ pc = "for_note"
    /\ n_done = 2
    /\ midi_notes[1] = 39
    /\ midi_notes[2] = 74
    /\ AllSameLength

\* C6: width convention. The cell of a note placed with fret f in 0..24 is
\* 3 characters, "-f-" when f < 10 and "ff-" when f >= 10, and every other
\* cell of that slot is exactly "---"; a note placed nowhere and not
\* annotated leaves "---" on all six strings.
C6_WidthConvention ==
    AtNoteBoundary =>
        \A m \in Processed : \A s \in Strings :
            LET c == Slot(s, m)
                f == midi_notes[m] - string_midi[s + 1]
            IN  IF FirstString(midi_notes[m], s)
                THEN /\ Len(c) = 3
                     /\ f < 10 => c = "-" \o CharAt(DigitChars, f + 1) \o "-"
                     /\ f >= 10 => c = CharAt(DigitChars, (f \div 10) + 1)
                                        \o CharAt(DigitChars, (f % 10) + 1) \o "-"
                ELSE CharAt(c, 1) # "(" => c = "---"

\* fret 9 and fret 10 on string 0
C6_Witness ==
    /\ pc = "for_note"
    /\ n_done = 2
    /\ midi_notes = <<73, 74>>
    /\ Slot(0, 1) = "-9-"
    /\ Slot(0, 2) = "10-"

\* C7: the mapper never fails. Every call returns, and what it returns is
\* the "no notes" sentinel exactly when the sequence is empty and a six-line
\* tablature, the join of the six lines, otherwise.
C7_NeverFails ==
    /\ [](pc = "returned" =>
            \/ midi_notes = <<>> /\ result = NoNotesMessage
            \/ /\ midi_notes # <<>>
               /\ result # NoNotesMessage
               /\ LineCount(result) = 6
               /\ n_done = Len(midi_notes))
    /\ <>(pc = "returned")

\* a call with a pitch below and a pitch above every string has returned
C7_Witness ==
    /\ pc = "returned"
    /\ midi_notes = <<0, 127>>
    /\ LineCount(result) = 6

\* C8: the empty sequence returns the fixed sentinel and not six empty
\* labelled lines; a nonempty sequence never returns the sentinel.
C8_SentinelIffEmpty ==
    pc = "returned" =>
        /\ midi_notes = <<>> <=> result = NoNotesMessage
        /\ midi_notes = <<>> => /\ result = "No notes detected in audio file."
                                /\ result # "E|\nB|\nG|\nD|\nA|\nE|"
                                /\ LineCount(result) = 1

C8_Witness ==
    /\ pc = "returned"
    /\ midi_notes = <<>>
    /\ result = "No notes detected in audio file."

\* C9: a note equal to the open pitch of string i, placeable on no string of
\* smaller index, yields "-0-" on string i; for notes = [64] line 0 holds
\* "-0-" and the other five lines hold "---".
C9_OpenStringIsFretZero ==
    /\ AtNoteBoundary =>
           \A m \in Processed : \A s \in Strings :
               (midi_notes[m] = string_midi[s + 1] /\ FirstString(midi_notes[m], s)) =>
                   /\ Slot(s, m) = "-0-"
                   /\ \A t \in Strings : ~Contains(Slot(t, m), "(")
    /\ (pc = "returned" /\ midi_notes = <<64>>) =>
           result = "E|-0-\nB|---\nG|---\nD|---\nA|---\nE|---"

C9_Witness ==
    /\ pc = "returned"
    /\ midi_notes = <<64>>
    /\ Slot(0, 1) = "-0-"

\* C10: no deduplication. The returned tablature has exactly one slot per
\* input note on every line, the slots in input order, also when consecutive
\* notes are equal or one semitone apart; [64, 65] gives "-0-" then "-1-" on
\* string 0.
C10_NoDeduplication ==
    /\ (pc = "returned" /\ midi_notes # <<>>) =>
           /\ \A s \in Strings : Len(Cells(tab_lines[s + 1])) = Len(midi_notes)
           /\ \A m \in 1..Len(midi_notes) : \A s \in Strings :
                  FirstString(midi_notes[m], s) =>
                      IsFretCellFor(Slot(s, m), midi_notes[m] - string_midi[s + 1])
    /\ (pc = "returned" /\ midi_notes = <<64, 65>>) =>
           result = "E|-0--1-\nB|------\nG|------\nD|------\nA|------\nE|------"

C10_Witness ==
    /\ pc = "returned"
    /\ midi_notes = <<64, 65>>
    /\ Slot(0, 1) = "-0-"
    /\ Slot(0, 2) = "-1-"

\* C11: purity. A call that returns for the same notes as a remembered
\* earlier call on the same instance returns the very same text, whatever
\* calls were made in between, and no call changes the engine's tuning or
\* string names.
C11_Purity ==
    /\ string_midi = <<64, 59, 55, 50, 45, 40>>
    /\ string_names = <<"E", "B", "G", "D", "A", "E">>
    /\ (pc = "returned" /\ ref # <<>> /\ ref[1] = midi_notes) => result = ref[2]

\* the same two notes mapped again after a call with other notes
C11_Witness ==
    /\ pc = "returned"
    /\ ref = <<midi_notes, result, TRUE>>
    /\ midi_notes = <<94, 64>>
    /\ result = "E|(30)-0-\nB|------\nG|------\nD|------\nA|------\nE|------"

IsPrefix(a, b) == Len(a) <= Len(b) /\ SubSeq(b, 1, Len(a)) = a

RECURSIVE ConcatFirst(_, _)
ConcatFirst(cells, n) ==
    IF n = 0 THEN "" ELSE ConcatFirst(cells, n - 1) \o cells[n]

\* the label of a line and its cells for the n notes already processed
Kept(line, n) == SubSeq(line, 1, 2) \o ConcatFirst(Cells(line), n)

InLoop == pc \in {"for_note", "for_string", "if_not_placed"}

\* C12 (as claimed): during construction no step changes or removes a
\* character already written: every line is a prefix of its next value.
C12_AppendOnly ==
    [][InLoop => \A s \in Strings : IsPrefix(tab_lines[s + 1], tab_lines'[s + 1])]_vars

\* C12 (amended): the cells of notes already processed are never changed or
\* removed, so a line as it stands after a note is a prefix of that line at
\* every later point; within one note event every step appends to the line
\* it touches, except that for a note more than 24 semitones above the
\* highest open string the "---" just appended to string 0 is replaced by
\* the annotation "(f)".
C12_ProcessedCellsKept ==
    [][InLoop =>
        \A s \in Strings :
            LET old == tab_lines[s + 1]
                new == tab_lines'[s + 1]
                kept == Kept(old, n_done)
            IN  /\ IsPrefix(kept, new)
                /\ n_done' = n_done => Kept(new, n_done) = kept
                /\ n_done' = n_done + 1 => new = Kept(new, n_done + 1)
                /\ \/ IsPrefix(old, new)
                   \/ /\ pc = "if_not_placed"
                      /\ s = 0
                      /\ note > string_midi[1] + 24
                      /\ old = kept \o "---"
                      /\ IsPrefix(kept \o "(", new)
                      /\ Len(Cells(new)) = n_done + 1]_vars

\* the rest written for pitch 94 after "-0-" has been replaced by "(30)"
C12_Witness ==
    /\ pc = "for_note"
    /\ n_done = 2
    /\ midi_notes = <<64, 94>>
    /\ tab_lines[1] = "E|-0-(30)"
    /\ tab_lines[2] = "B|------"

\* the elements of d at the indices in K, in order
RECURSIVE Restrict(_, _, _)
Restrict(d, K, j) ==
    IF j > Len(d) THEN <<>>
    ELSE (IF j \in K THEN <<d[j]>> ELSE <<>>) \o Restrict(d, K, j + 1)

\* K holds index j exactly when j is the first index or d[j] is more than a
\* semitone from the element at the nearest smaller index in K
IsKeptSet(d, K) ==
    \A j \in 1..Len(d) :
        j \in K <=>
            \/ j = 1
            \/ \E prev \in K :
                   /\ prev < j
                   /\ \A k \in K : ~(prev < k /\ k < j)
                   /\ AbsDiff(d[j], d[prev]) > 1

\* C13: upstream deduplication. Of the detected notes consumed so far a note
\* is kept iff it is the first or differs by more than 1 semitone from the
\* most recently kept note; the cleaned sequence is that order-preserving
\* subsequence and no two of its consecutive elements differ by 0 or 1.
C13_DedupAgainstLastKept ==
    t_pc \in {"clean", "display", "done"} =>
        LET d == SubSeq(t_midi_notes, 1, t_idx)
        IN  /\ \E K \in SUBSET (1..Len(d)) :
                   IsKeptSet(d, K) /\ cleaned_notes = Restrict(d, K, 1)
            /\ \A j \in 1..(Len(cleaned_notes) - 1) :
                   AbsDiff(cleaned_notes[j], cleaned_notes[j + 1]) > 1

\* 42 follows the dropped 41 but is two semitones from the kept 40
C13_Witness ==
    /\ t_pc = "done"
    /\ t_midi_notes = <<40, 41, 42>>
    /\ cleaned_notes = <<40, 42>>
    /\ t_result = <<"E|------\nB|------\nG|------\nD|------\nA|------\nE|-0--2-", "None">>

\* the lines of a text
RECURSIVE TextLinesFrom(_, _, _)
TextLinesFrom(text, start, p) ==
    IF p > Len(text) THEN <<SubSeq(text, start, Len(text))>>
    ELSE IF CharAt(text, p) = "\n"
         THEN <<SubSeq(text, start, p - 1)>> \o TextLinesFrom(text, p + 1, p + 1)
         ELSE TextLinesFrom(text, start, p + 1)

TextLines(text) == TextLinesFrom(text, 1, 1)

\* transcribe_audio_to_tab has returned a tablature: no error, not the sentinel
TabReturned ==
    /\ t_pc = "done"
    /\ t_result[2] = "None"
    /\ t_result[1] # "No notes detected in audio file."

\* the returned tablature has only playable notes: every pitch in 40..84, no
\* overflow cell, one cell per note on each line of which exactly one is a
\* fret cell, and six lines of equal length
PlayableTab ==
    LET lines == TextLines(t_result[1])
    IN  /\ Len(lines) = 6
        /\ \A m \in 1..Len(midi_notes) : 40 <= midi_notes[m] /\ midi_notes[m] <= 84
        /\ \A s \in 1..6 : ~Contains(lines[s], "(")
        /\ \A s \in 1..6 : Len(Cells(lines[s])) = Len(midi_notes)
        /\ \A m \in 1..Len(midi_notes) :
               Cardinality({s \in 1..6 : Cells(lines[s])[m] # "---"}) = 1
        /\ \A s, t \in 1..6 : Len(lines[s]) = Len(lines[t])

AtMost(n_onsets, stop) ==
    IF stop >= 0 THEN stop
    ELSE IF n_onsets + stop > 0 THEN n_onsets + stop ELSE 0

-----------------------------------------------------------------------------
(* Accounts, sessions and the quota *)

\* the plan of a user, as the users table has it
TierOf(u) == users[u][3]

\* C14: for a user on the free or the tier1 plan the usage records of the
\* month never exceed the plan's limit, 100 for free and 500 for tier1,
\* however the generation requests of the user's sessions interleave.
C14_QuotaNeverExceeded ==
    \A u \in DOMAIN users :
        /\ TierOf(u) = "free" => usage[u] <= 100
        /\ TierOf(u) = "tier1" => usage[u] <= 500

\* what a failed login shows
LoginFailures ==
    {"Invalid email or password", "Please enter both email and password",
     "database is locked"}

\* the rows of users with this e-mail whose stored hash is that of this password
RowsFor(email, password) ==
    {u \in DOMAIN users : users[u][1] = email /\ users[u][2] = <<"sha256", password>>}

\* user_info of session s is the record of the row that the e-mail and the
\* password of its last authenticate_user call match
HoldsUserRecord(s) ==
    /\ login_args[s] # <<>>
    /\ \E u \in RowsFor(login_args[s][1], login_args[s][2]) :
           user_info[s] = <<u, login_args[s][1], users[u][3]>>

SessionInvariant ==
    \A s \in DOMAIN authenticated :
        authenticated[s] => (user_info[s] # <<>> /\ HoldsUserRecord(s))

SessionStep ==
    \A s \in DOMAIN authenticated :
        \* a failed login leaves both unchanged: one that shows a failure ...
        /\ (message'[s] \in LoginFailures) =>
               (authenticated'[s] = authenticated[s] /\ user_info'[s] = user_info[s])
        \* ... and one whose e-mail and password match no row
        /\ (login_args'[s] # login_args[s]
               /\ RowsFor(login_args'[s][1], login_args'[s][2]) = {}) =>
               (authenticated'[s] = authenticated[s] /\ user_info'[s] = user_info[s])
        \* logout resets both
        /\ (authenticated[s] /\ ~authenticated'[s]) => user_info'[s] = <<>>
        \* only a login whose e-mail and password match a row authenticates,
        \* and user_info is then the record of that row
        /\ (~authenticated[s] /\ authenticated'[s]) =>
               /\ login_args'[s] # <<>>
               /\ \E u \in RowsFor(login_args'[s][1], login_args'[s][2]) :
                      user_info'[s] = <<u, login_args'[s][1], users[u][3]>>

UsageStep ==
    usage' # usage =>
        \E s \in DOMAIN authenticated :
            /\ authenticated[s] /\ authenticated'[s]
            /\ user_info[s] # <<>>
            /\ usage' = [usage EXCEPT ![user_info[s][1]] = @ + 1]

\* C15: in a session, authenticated implies that user_info is not None and
\* holds the record of a successful authenticate_user call; a failed login
\* leaves both unchanged, logout sets authenticated to false and user_info
\* to None, and a usage record is logged only while authenticated is true.
C15_SessionInvariant ==
    /\ []SessionInvariant
    /\ [][SessionStep /\ UsageStep]_vars

\* signed up, logged in, generated once, logged out, then a login that failed
C15_Witness ==
    \E s \in DOMAIN authenticated :
        /\ Len(users) = 2
        /\ ~authenticated[s]
        /\ user_info[s] = <<>>
        /\ usage[2] = 1
        /\ message[s] = "Invalid email or password"
        \* the e-mail of the second account with a password that is not its own
        /\ login_args[s][1] = users[2][1]
        /\ users[2][2] # <<"sha256", login_args[s][2]>>

====
